---- MODULE Spec2Model ----
(***************************************************************************)
(* Model of src-tauri/src/main.rs: the value bridge between               *)
(* serde_json::Value and rusqlite values (json_to_sql_value,               *)
(* sql_to_json_value) and the three commands that use it (init_database,   *)
(* execute_query, execute_non_query).                                      *)
(*                                                                         *)
(* Text is a sequence of one-character strings.  An ExternalValue          *)
(* (serde_json::Value) is a record [t, v] whose tag t is one of "null",    *)
(* "bool", "num", "str", "arr", "obj"; an object's payload is a function   *)
(* from keys to values (serde_json::Map).  A NativeValue (rusqlite Value / *)
(* ValueRef) is a record [t, v] with tag "Null", "Integer", "Real",        *)
(* "Text" or "Blob".                                                       *)
(***************************************************************************)
EXTENDS Integers, Sequences, FiniteSets, TLC

\* ------------------------------------------------------------------ bounds
\* longest text enumerated character by character
MaxLen == 3
\* nesting depth and width of the arrays and objects enumerated
MaxDepth == 2
MaxWidth == 2
\* calls in flight at once: the host runs these commands, which are not
\* async, one at a time
MaxCalls == 1
\* rows the store holds before the engine reports it full
MaxRows == 2

\* ------------------------------------------------------- characters, bytes
\* A byte of a Text column that is not valid UTF-8, and the character
\* U+FFFD that String::from_utf8_lossy puts in its place.
InvalidByte == "<FF>"
ReplacementChar == "<U+FFFD>"
Backspace == "<BS>"

Digits == <<"0", "1", "2", "3", "4", "5", "6", "7", "8", "9">>
DigitSet == {Digits[i] : i \in 1..10}
IsDigit(c) == c \in DigitSet
DigitVal(c) == CHOOSE i \in 0..9 : Digits[i + 1] = c

HexDigits == <<"0", "1", "2", "3", "4", "5", "6", "7", "8", "9",
               "a", "b", "c", "d", "e", "f">>
UpperHex == <<"A", "B", "C", "D", "E", "F">>
IsHex(c) == (\E i \in 1..16 : HexDigits[i] = c) \/ (\E i \in 1..6 : UpperHex[i] = c)
HexVal(c) ==
    IF \E i \in 1..16 : HexDigits[i] = c
    THEN (CHOOSE i \in 1..16 : HexDigits[i] = c) - 1
    ELSE (CHOOSE i \in 1..6 : UpperHex[i] = c) + 9

Whitespace == {" ", "\n", "\t", "\r"}
ControlChars == {"\n", "\t", "\r", "\f", Backspace}

\* Code points of the characters the model uses (keys of an object are
\* kept in byte order by serde_json's BTreeMap).
CharTable ==
    << <<"\t", 9>>, <<"\n", 10>>, <<"\f", 12>>, <<"\r", 13>>, <<Backspace, 8>>,
       <<" ", 32>>, <<"\"", 34>>, <<"+", 43>>, <<",", 44>>, <<"-", 45>>,
       <<".", 46>>, <<"/", 47>>,
       <<"0", 48>>, <<"1", 49>>, <<"2", 50>>, <<"3", 51>>, <<"4", 52>>,
       <<"5", 53>>, <<"6", 54>>, <<"7", 55>>, <<"8", 56>>, <<"9", 57>>,
       <<":", 58>>, <<"A", 65>>, <<"E", 69>>, <<"[", 91>>, <<"\\", 92>>,
       <<"]", 93>>, <<"a", 97>>, <<"b", 98>>, <<"c", 99>>, <<"d", 100>>,
       <<"e", 101>>, <<"f", 102>>, <<"i", 105>>, <<"l", 108>>, <<"n", 110>>,
       <<"r", 114>>, <<"s", 115>>, <<"t", 116>>, <<"u", 117>>, <<"x", 120>>,
       <<"{", 123>>, <<"}", 125>>, <<ReplacementChar, 65533>> >>
CharCode(c) == CharTable[CHOOSE i \in 1..Len(CharTable) : CharTable[i][1] = c][2]
CharOf(code) ==
    IF \E i \in 1..Len(CharTable) : CharTable[i][2] = code
    THEN CharTable[CHOOSE i \in 1..Len(CharTable) : CharTable[i][2] = code][1]
    ELSE "U+" \o ToString(code)

At(s, i) == IF i >= 1 /\ i <= Len(s) THEN s[i] ELSE "<EOF>"

\* ---------------------------------------------------------- ExternalValue
JNull == [t |-> "null", v |-> <<>>]
JBool(b) == [t |-> "bool", v |-> b]
JInt(i) == [t |-> "num", v |-> [k |-> "int", n |-> i]]
\* A float is kept by its shortest decimal text (what ryu prints for it).
JFloat(txt) == [t |-> "num", v |-> [k |-> "float", n |-> txt]]
JStr(s) == [t |-> "str", v |-> s]
JArr(a) == [t |-> "arr", v |-> a]
JObj(m) == [t |-> "obj", v |-> m]

\* ----------------------------------------------------------- NativeValue
SqlNull == [t |-> "Null", v |-> <<>>]
SqlInteger(i) == [t |-> "Integer", v |-> i]
SqlReal(f) == [t |-> "Real", v |-> f]
SqlText(s) == [t |-> "Text", v |-> s]
SqlBlob(b) == [t |-> "Blob", v |-> b]

\* ------------------------------------------- serde_json::Value::to_string
RECURSIVE UDec(_)
UDec(n) == IF n < 10 THEN <<Digits[n + 1]>>
           ELSE Append(UDec(n \div 10), Digits[(n % 10) + 1])
Itoa(i) == IF i < 0 THEN <<"-">> \o UDec(-i) ELSE UDec(i)

EscapeChar(c) ==
    CASE c = "\"" -> <<"\\", "\"">>
      [] c = "\\" -> <<"\\", "\\">>
      [] c = "\n" -> <<"\\", "n">>
      [] c = "\t" -> <<"\\", "t">>
      [] c = "\r" -> <<"\\", "r">>
      [] c = "\f" -> <<"\\", "f">>
      [] c = Backspace -> <<"\\", "b">>
      [] OTHER -> <<c>>

RECURSIVE EscapeStr(_)
EscapeStr(s) == IF s = <<>> THEN <<>> ELSE EscapeChar(Head(s)) \o EscapeStr(Tail(s))
Quote(s) == <<"\"">> \o EscapeStr(s) \o <<"\"">>

\* Byte-wise (lexicographic) order of keys.
RECURSIVE KeyLess(_, _)
KeyLess(a, b) ==
    IF b = <<>> THEN FALSE
    ELSE IF a = <<>> THEN TRUE
    ELSE IF CharCode(Head(a)) # CharCode(Head(b)) THEN CharCode(Head(a)) < CharCode(Head(b))
    ELSE KeyLess(Tail(a), Tail(b))

RECURSIVE SortedKeys(_)
SortedKeys(S) ==
    IF S = {} THEN <<>>
    ELSE LET m == CHOOSE k \in S : \A o \in S \ {k} : KeyLess(k, o)
         IN <<m>> \o SortedKeys(S \ {m})

RECURSIVE to_string(_), SerElems(_), SerMembers(_, _)
to_string(val) ==
    CASE val.t = "null" -> <<"n", "u", "l", "l">>
      [] val.t = "bool" -> IF val.v THEN <<"t", "r", "u", "e">>
                                    ELSE <<"f", "a", "l", "s", "e">>
      [] val.t = "num" -> IF val.v.k = "int" THEN Itoa(val.v.n) ELSE val.v.n
      [] val.t = "str" -> Quote(val.v)
      [] val.t = "arr" -> <<"[">> \o SerElems(val.v) \o <<"]">>
      [] val.t = "obj" -> <<"{">> \o SerMembers(val.v, SortedKeys(DOMAIN val.v)) \o <<"}">>
SerElems(a) ==
    IF a = <<>> THEN <<>>
    ELSE IF Len(a) = 1 THEN to_string(a[1])
    ELSE to_string(Head(a)) \o <<",">> \o SerElems(Tail(a))
SerMembers(m, ks) ==
    IF ks = <<>> THEN <<>>
    ELSE LET one == Quote(Head(ks)) \o <<":">> \o to_string(m[Head(ks)])
         IN IF Len(ks) = 1 THEN one ELSE one \o <<",">> \o SerMembers(m, Tail(ks))

\* --------------------------------------------- serde_json::from_str::<Value>
Fail == [ok |-> FALSE]
Ok(val, pos) == [ok |-> TRUE, val |-> val, pos |-> pos]

RECURSIVE SkipWs(_, _)
SkipWs(s, i) == IF i <= Len(s) /\ s[i] \in Whitespace THEN SkipWs(s, i + 1) ELSE i

RECURSIVE ScanDigits(_, _)
ScanDigits(s, i) == IF i <= Len(s) /\ IsDigit(s[i]) THEN ScanDigits(s, i + 1) ELSE i

RECURSIVE DecVal(_)
DecVal(ds) == IF ds = <<>> THEN 0
              ELSE 10 * DecVal(SubSeq(ds, 1, Len(ds) - 1)) + DigitVal(ds[Len(ds)])

Lit(s, i, word) == i + Len(word) - 1 <= Len(s) /\ SubSeq(s, i, i + Len(word) - 1) = word

\* parse_integer / parse_number / parse_decimal / parse_exponent: s[i] is
\* "-" or a digit.  "-0" is the float -0.0; a leading zero is an error.
ParseNumber(s, i) ==
    LET neg == s[i] = "-"
        j == IF neg THEN i + 1 ELSE i
        c == At(s, j)
    IN  IF ~IsDigit(c) THEN Fail
        ELSE
        LET k == IF c = "0" THEN j + 1 ELSE ScanDigits(s, j + 1)
        IN  IF c = "0" /\ IsDigit(At(s, k)) THEN Fail
            ELSE
            LET hasFrac == At(s, k) = "."
                f == IF hasFrac THEN ScanDigits(s, k + 1) ELSE k
                fracOk == ~hasFrac \/ f > k + 1
                hasExp == fracOk /\ At(s, f) \in {"e", "E"}
                e0 == IF hasExp
                      THEN (IF At(s, f + 1) \in {"+", "-"} THEN f + 2 ELSE f + 1)
                      ELSE f
                e == IF hasExp THEN ScanDigits(s, e0) ELSE f
                expOk == ~hasExp \/ e > e0
            IN  IF ~fracOk \/ ~expOk THEN Fail
                ELSE IF hasFrac \/ hasExp THEN Ok(JFloat(SubSeq(s, i, e - 1)), e)
                ELSE LET mag == DecVal(SubSeq(s, j, k - 1))
                     IN  IF neg /\ mag = 0 THEN Ok(JFloat(<<"-", "0", ".", "0">>), k)
                         ELSE Ok(JInt(IF neg THEN 0 - mag ELSE mag), k)

Unescape(d) ==
    CASE d = "\"" -> "\""
      [] d = "\\" -> "\\"
      [] d = "/" -> "/"
      [] d = "b" -> Backspace
      [] d = "f" -> "\f"
      [] d = "n" -> "\n"
      [] d = "r" -> "\r"
      [] d = "t" -> "\t"

\* parse_str: i is the position after the opening quote; the result's val
\* is the decoded text.
RECURSIVE ParseStrBody(_, _, _)
ParseStrBody(s, i, acc) ==
    IF i > Len(s) THEN Fail
    ELSE
    LET c == s[i] IN
    IF c = "\"" THEN Ok(acc, i + 1)
    ELSE IF c = "\\" THEN
        LET d == At(s, i + 1) IN
        IF d \in {"\"", "\\", "/", "b", "f", "n", "r", "t"}
        THEN ParseStrBody(s, i + 2, Append(acc, Unescape(d)))
        ELSE IF d = "u" /\ \A h \in 2..5 : IsHex(At(s, i + h))
        THEN LET code == 4096 * HexVal(s[i + 2]) + 256 * HexVal(s[i + 3])
                         + 16 * HexVal(s[i + 4]) + HexVal(s[i + 5])
             IN  \* a surrogate needs its pair, which no text this short holds
                 IF code >= 55296 /\ code <= 57343 THEN Fail
                 ELSE ParseStrBody(s, i + 6, Append(acc, CharOf(code)))
        ELSE Fail
    ELSE IF c \in ControlChars THEN Fail
    ELSE ParseStrBody(s, i + 1, Append(acc, c))

MapInsert(m, k, val) == [key \in (DOMAIN m) \cup {k} |-> IF key = k THEN val ELSE m[key]]

RECURSIVE ParseValue(_, _), ParseElems(_, _, _), ParseMembers(_, _, _)
ParseValue(s, i0) ==
    LET i == SkipWs(s, i0)
        c == At(s, i)
    IN  CASE c = "n" -> IF Lit(s, i, <<"n", "u", "l", "l">>) THEN Ok(JNull, i + 4) ELSE Fail
          [] c = "t" -> IF Lit(s, i, <<"t", "r", "u", "e">>) THEN Ok(JBool(TRUE), i + 4) ELSE Fail
          [] c = "f" -> IF Lit(s, i, <<"f", "a", "l", "s", "e">>) THEN Ok(JBool(FALSE), i + 5) ELSE Fail
          [] c = "-" \/ IsDigit(c) -> ParseNumber(s, i)
          [] c = "\"" -> LET r == ParseStrBody(s, i + 1, <<>>)
                         IN  IF r.ok THEN Ok(JStr(r.val), r.pos) ELSE Fail
          [] c = "[" -> LET j == SkipWs(s, i + 1)
                        IN  IF At(s, j) = "]" THEN Ok(JArr(<<>>), j + 1)
                            ELSE ParseElems(s, j, <<>>)
          [] c = "{" -> LET j == SkipWs(s, i + 1)
                        IN  IF At(s, j) = "}" THEN Ok(JObj(<<>>), j + 1)
                            ELSE ParseMembers(s, j, <<>>)
          [] OTHER -> Fail
ParseElems(s, i, acc) ==
    LET r == ParseValue(s, i) IN
    IF ~r.ok THEN Fail
    ELSE LET j == SkipWs(s, r.pos) IN
         IF At(s, j) = "," THEN ParseElems(s, j + 1, Append(acc, r.val))
         ELSE IF At(s, j) = "]" THEN Ok(JArr(Append(acc, r.val)), j + 1)
         ELSE Fail
ParseMembers(s, i, acc) ==
    LET j == SkipWs(s, i) IN
    IF At(s, j) # "\"" THEN Fail
    ELSE LET k == ParseStrBody(s, j + 1, <<>>) IN
    IF ~k.ok THEN Fail
    ELSE LET c == SkipWs(s, k.pos) IN
    IF At(s, c) # ":" THEN Fail
    ELSE LET r == ParseValue(s, c + 1) IN
    IF ~r.ok THEN Fail
    ELSE LET acc2 == MapInsert(acc, k.val, r.val)
             e == SkipWs(s, r.pos)
         IN  IF At(s, e) = "," THEN ParseMembers(s, e + 1, acc2)
             ELSE IF At(s, e) = "}" THEN Ok(JObj(acc2), e + 1)
             ELSE Fail

\* from_str: one value, then only whitespace up to the end of the text.
from_str(s) ==
    LET r == ParseValue(s, 1) IN
    IF r.ok /\ SkipWs(s, r.pos) > Len(s) THEN r ELSE Fail

\* ------------------------------------------------------------ value bridge
\* serde_json::Number::as_i64 / as_f64.  Integers of the model lie in the
\* i64 range, so as_i64 answers for every integer and for no float.
Some(val) == <<val>>
None == <<>>
as_i64(n) == IF n.k = "int" THEN Some(n.n) ELSE None
as_f64(n) == IF n.k = "int" THEN Some(Itoa(n.n) \o <<".", "0">>) ELSE Some(n.n)

\* Mutations of the inbound mapping.
json_to_sql_value_RealFirst(json_val) ==
    CASE json_val.t = "null" -> SqlNull
      [] json_val.t = "bool" -> SqlInteger(IF json_val.v THEN 1 ELSE 0)
      [] json_val.t = "num" -> SqlReal(as_f64(json_val.v)[1])
      [] json_val.t = "str" -> SqlText(json_val.v)
      [] OTHER -> SqlText(to_string(json_val))
json_to_sql_value_BoolText(json_val) ==
    CASE json_val.t = "null" -> SqlNull
      [] json_val.t = "num" -> SqlInteger(json_val.v.n)
      [] json_val.t = "str" -> SqlText(json_val.v)
      [] OTHER -> SqlText(to_string(json_val))

json_to_sql_value(json_val) ==
    CASE json_val.t = "null" -> SqlNull
      [] json_val.t = "bool" -> SqlInteger(IF json_val.v THEN 1 ELSE 0)
      [] json_val.t = "num" ->
            IF as_i64(json_val.v) # None THEN SqlInteger(as_i64(json_val.v)[1])
            ELSE IF as_f64(json_val.v) # None THEN SqlReal(as_f64(json_val.v)[1])
            ELSE SqlNull
      [] json_val.t = "str" -> SqlText(json_val.v)
      [] json_val.t \in {"arr", "obj"} -> SqlText(to_string(json_val))

\* String::from_utf8_lossy: every invalid byte becomes U+FFFD.
from_utf8_lossy(bytes) ==
    [i \in 1..Len(bytes) |-> IF bytes[i] = InvalidByte THEN ReplacementChar ELSE bytes[i]]

\* base64 STANDARD.encode over bytes 0..255, with "=" padding.
B64Alphabet ==
    <<"A", "B", "C", "D", "E", "F", "G", "H", "I", "J", "K", "L", "M", "N", "O", "P",
      "Q", "R", "S", "T", "U", "V", "W", "X", "Y", "Z", "a", "b", "c", "d", "e", "f",
      "g", "h", "i", "j", "k", "l", "m", "n", "o", "p", "q", "r", "s", "t", "u", "v",
      "w", "x", "y", "z", "0", "1", "2", "3", "4", "5", "6", "7", "8", "9", "+", "/">>
RECURSIVE Base64(_)
Base64(b) ==
    IF b = <<>> THEN <<>>
    ELSE IF Len(b) = 1 THEN
        <<B64Alphabet[(b[1] \div 4) + 1], B64Alphabet[((b[1] % 4) * 16) + 1], "=", "=">>
    ELSE IF Len(b) = 2 THEN
        <<B64Alphabet[(b[1] \div 4) + 1],
          B64Alphabet[((b[1] % 4) * 16 + (b[2] \div 16)) + 1],
          B64Alphabet[((b[2] % 16) * 4) + 1], "=">>
    ELSE
        <<B64Alphabet[(b[1] \div 4) + 1],
          B64Alphabet[((b[1] % 4) * 16 + (b[2] \div 16)) + 1],
          B64Alphabet[((b[2] % 16) * 4 + (b[3] \div 64)) + 1],
          B64Alphabet[(b[3] % 64) + 1]>> \o Base64(SubSeq(b, 4, Len(b)))

\* A Real is kept by its decimal text; these are the values that are not
\* finite, for which serde_json::json! gives null.
NonFinite == {<<"i", "n", "f">>, <<"-", "i", "n", "f">>}

\* Mutations of the outbound mapping.
sql_to_json_value_NoParse(sql_val) ==
    CASE sql_val.t = "Null" -> JNull
      [] sql_val.t = "Integer" -> JInt(sql_val.v)
      [] sql_val.t = "Real" -> IF sql_val.v \in NonFinite THEN JNull ELSE JFloat(sql_val.v)
      [] sql_val.t = "Text" -> JStr(from_utf8_lossy(sql_val.v))
      [] OTHER -> JStr(Base64(sql_val.v))
sql_to_json_value_NullOnFail(sql_val) ==
    CASE sql_val.t = "Null" -> JNull
      [] sql_val.t = "Integer" -> JInt(sql_val.v)
      [] sql_val.t = "Real" -> IF sql_val.v \in NonFinite THEN JNull ELSE JFloat(sql_val.v)
      [] sql_val.t = "Text" ->
            LET r == from_str(from_utf8_lossy(sql_val.v)) IN IF r.ok THEN r.val ELSE JNull
      [] OTHER -> JStr(Base64(sql_val.v))

sql_to_json_value(sql_val) ==
    CASE sql_val.t = "Null" -> JNull
      [] sql_val.t = "Integer" -> JInt(sql_val.v)
      [] sql_val.t = "Real" -> IF sql_val.v \in NonFinite THEN JNull ELSE JFloat(sql_val.v)
      [] sql_val.t = "Text" ->
            LET text == from_utf8_lossy(sql_val.v)
                r == from_str(text)
            IN  IF r.ok THEN r.val ELSE JStr(text)
      [] sql_val.t = "Blob" -> JStr(Base64(sql_val.v))

\* ============================================================== the store
VARIABLES
    host,       \* "ok" when path_resolver().app_data_dir() is Some, else "none"
    fs,         \* which of the app data dir, its data/ subdir, the db file exist
    db,         \* committed content of the store: its tables, the rows of t
    call,       \* per call slot: the frame of the command running in it, with
                \* what it walked, read and opened kept for the record
    openConns,  \* connections open in the engine
    openStmts,  \* prepared statements not yet finalized
    acked,      \* history: values whose INSERT returned success, not deleted since
    everInit    \* history: some init_database call has returned success

\* ============================================================= the bridge
VARIABLES
    bpc,        \* "input", "bound", "stored", "read", or "off"
    bIn,        \* the ExternalValue given to json_to_sql_value
    bNative,    \* the NativeValue bound or stored
    bOut        \* the ExternalValue sql_to_json_value gave back

execVars == <<host, fs, db, call, openConns, openStmts, acked, everInit>>
bridgeVars == <<bpc, bIn, bNative, bOut>>
vars == <<host, fs, db, call, openConns, openStmts, acked, everInit, bpc, bIn, bNative, bOut>>

NoValue == [t |-> "none", v |-> <<>>]

\* ----------------------------------------------------- inputs of the bridge
RECURSIVE Strs(_, _)
Strs(A, n) ==
    IF n = 0 THEN {<<>>}
    ELSE LET P == Strs(A, n - 1)
         IN  P \cup {Append(q, c) : q \in {r \in P : Len(r) = n - 1}, c \in A}

TextAlphabet == {"4", "0", "-", "[", "]", "\"", " ", "x"}

\* Texts longer than MaxLen that are, or nearly are, serialized values.
SampleTexts ==
    { <<"n", "u", "l", "l">>, <<"t", "r", "u", "e">>, <<"f", "a", "l", "s", "e">>,
      <<"n", "u", "l">>, <<"A", "l", "i", "c", "e">>, <<"4", "2">>,
      <<"4", ".", "0">>, <<"4", "e", "2">>, <<"4", ".">>,
      <<"[", "4", ",", "2", "]">>, <<"[", "4", ",", "]">>,
      <<"{", "\"", "a", "\"", ":", "4", "}">>, <<"{", "a", ":", "4", "}">>,
      <<"\"", "\\", "u", "0", "0", "3", "4", "\"">>, <<"\"", "\\", "x", "\"">>,
      <<"\"", "\n", "\"">>, <<"\n", "4", "\t">> }

Leaves == { JNull, JBool(TRUE), JBool(FALSE), JInt(0 - 7), JInt(42), JStr(<<>>),
            JStr(<<"\"", "\\", "\n">>) }
Siblings == { JStr(<<"4", "2">>) }
Keys == <<<<"a">>, <<>>, <<"\"", "4">>, <<"A">>, <<"b">>>>

\* Arrays and objects over h: h first, then up to MaxWidth - 1 siblings.
RECURSIVE SibSeqs(_)
SibSeqs(n) ==
    IF n = 0 THEN {<<>>}
    ELSE LET P == SibSeqs(n - 1)
         IN  P \cup {Append(q, c) : q \in {r \in P : Len(r) = n - 1}, c \in Siblings}
ObjOf(h, sibs) ==
    [key \in {Keys[i] : i \in 1..(Len(sibs) + 1)} |->
        IF key = Keys[1] THEN h
        ELSE sibs[(CHOOSE i \in 2..(Len(sibs) + 1) : Keys[i] = key) - 1]]
Around(h) ==
    {JArr(<<h>> \o q) : q \in SibSeqs(MaxWidth - 1)}
    \cup {JObj(ObjOf(h, q)) : q \in SibSeqs(MaxWidth - 1)}
    \cup {JObj([key \in {Keys[i]} |-> h]) : i \in 2..3}
RECURSIVE Vals(_)
Vals(d) ==
    IF d = 0 THEN Leaves
    ELSE LET P == Vals(d - 1)
         IN  P \cup {JArr(<<>>), JObj(<<>>)} \cup UNION {Around(h) : h \in P}

ExternalInputs ==
    {JNull, JBool(TRUE), JBool(FALSE), JFloat(<<"1", ".", "5">>)}
    \cup {JInt(i) : i \in {0 - 7, 0, 1, 42}}
    \cup {JStr(s) : s \in Strs(TextAlphabet, MaxLen) \cup SampleTexts}
    \cup Vals(MaxDepth)

\* What a column can hold that no parameter put there.
StoredInputs ==
    {SqlText(s) : s \in {r \in Strs(TextAlphabet \cup {InvalidByte}, MaxLen) :
                           \E i \in 1..Len(r) : r[i] = InvalidByte}}
    \cup {SqlBlob(<<>>), SqlBlob(<<77>>), SqlBlob(<<77, 97>>), SqlBlob(<<77, 97, 110>>),
          SqlBlob(<<255, 0, 16, 131>>)}
    \cup {SqlReal(<<"1", ".", "5">>), SqlReal(<<"i", "n", "f">>)}

\* --------------------------------------------------- actions of the bridge
\* Bind a parameter: json_to_sql_value, as execute_query does for SELECT ?.
Bind ==
    /\ bpc = "input"
    /\ bNative' = json_to_sql_value(bIn)
    /\ bpc' = "bound"
    /\ UNCHANGED <<bIn, bOut>>
    /\ UNCHANGED execVars

\* Read a column back: sql_to_json_value on the value the engine returns.
ReadBack ==
    /\ bpc \in {"bound", "stored"}
    /\ bOut' = sql_to_json_value(bNative)
    /\ bpc' = "read"
    /\ UNCHANGED <<bIn, bNative>>
    /\ UNCHANGED execVars

\* ============================================================ the engine
\* Statement texts the callers send.  T is the table the schema creates.
Q_NAME == "SELECT name FROM t"
Q_ECHO == "SELECT ?"
Q_DUP == "SELECT name AS a, 1 AS a FROM t"
Q_JSON == "SELECT json(name) FROM t"
Q_BAD == "SELEC name FROM t"
K_INSERT == "INSERT INTO t(name) VALUES (?)"
K_DELETE == "DELETE FROM t WHERE name = ?"
K_BAD == "INSER INTO t"

QueryTexts == {Q_NAME, Q_ECHO, Q_DUP, Q_JSON, Q_BAD}
CommandTexts == {K_INSERT, K_DELETE, K_BAD}
ParamVals == {JStr(<<"A", "l">>), JArr(<<JBool(TRUE)>>)}

\* The calls the callers make: each text with the parameters it needs, and
\* with a parameter list of the wrong length.
Requests ==
    {[op |-> "init", text |-> "", params |-> <<>>]}
    \cup {[op |-> "query", text |-> q, params |-> <<>>] : q \in QueryTexts}
    \cup {[op |-> "query", text |-> q, params |-> <<p>>] : q \in {Q_ECHO, Q_NAME}, p \in ParamVals}
    \cup {[op |-> "command", text |-> k, params |-> <<p>>] : k \in {K_INSERT, K_DELETE}, p \in ParamVals}
    \cup {[op |-> "command", text |-> k, params |-> <<>>] : k \in {K_INSERT, K_BAD}}

\* The names of the result columns, as text.
ColName == <<"n", "a", "m", "e">>
ColParam == <<"?">>
ColA == <<"a">>
ColJson == <<"j", "s", "o", "n", "(", "n", "a", "m", "e", ")">>

NoStmt == [live |-> FALSE, cols |-> <<>>, exprs |-> <<>>, from |-> "", nparams |-> 0,
           kind |-> ""]
Stmt(cols, exprs, from, nparams, kind) ==
    [live |-> TRUE, cols |-> cols, exprs |-> exprs, from |-> from, nparams |-> nparams,
     kind |-> kind]

\* sqlite3_prepare_v2 against the tables of the store: a statement, or an
\* error for text that does not parse or names a table that is not there.
Prepare(text, tables) ==
    LET needsT == text \in {Q_NAME, Q_DUP, Q_JSON, K_INSERT, K_DELETE}
    IN  IF text \in {Q_BAD, K_BAD} \/ (needsT /\ "t" \notin tables)
        THEN [ok |-> FALSE]
        ELSE [ok |-> TRUE,
              stmt |-> CASE text = Q_NAME -> Stmt(<<ColName>>, <<"col">>, "t", 0, "select")
                         [] text = Q_ECHO -> Stmt(<<ColParam>>, <<"param">>, "", 1, "select")
                         [] text = Q_DUP -> Stmt(<<ColA, ColA>>, <<"col", "one">>, "t", 0, "select")
                         [] text = Q_JSON -> Stmt(<<ColJson>>, <<"json">>, "t", 0, "select")
                         [] text = K_INSERT -> Stmt(<<>>, <<>>, "t", 1, "insert")
                         [] text = K_DELETE -> Stmt(<<>>, <<>>, "t", 1, "delete")]

\* The text the engine's json() sees for a stored value.
AsText(nv) == IF nv.t = "Text" THEN nv.v ELSE IF nv.t = "Integer" THEN Itoa(nv.v) ELSE <<>>

\* One result column of one row: the stored value, the bound parameter, a
\* literal, or json(name), which the engine refuses for malformed text.
EvalExpr(e, row, sqlparams) ==
    CASE e = "col" -> [ok |-> TRUE, val |-> row]
      [] e = "param" -> [ok |-> TRUE, val |-> sqlparams[1]]
      [] e = "one" -> [ok |-> TRUE, val |-> SqlInteger(1)]
      [] e = "json" ->
            IF row.t = "Null" THEN [ok |-> TRUE, val |-> SqlNull]
            ELSE LET r == from_str(AsText(row))
                 IN  IF r.ok THEN [ok |-> TRUE, val |-> SqlText(to_string(r.val))]
                     ELSE [ok |-> FALSE]

\* sqlite3_step's row: the values of all result columns, or an error.
EvalRow(stmt, row, sqlparams) ==
    LET cells == [i \in 1..Len(stmt.exprs) |-> EvalExpr(stmt.exprs[i], row, sqlparams)]
    IN  IF \A i \in 1..Len(cells) : cells[i].ok
        THEN [ok |-> TRUE, vals |-> [i \in 1..Len(cells) |-> cells[i].val]]
        ELSE [ok |-> FALSE]

\* The rows a select walks: those of t, or the single row of a FROM-less select.
ResultRows(stmt, rows) == IF stmt.from = "t" THEN rows ELSE <<SqlNull>>

\* The schema batch of src/services/database/schema.sql: guarded creation.
ApplySchema(d) == [ok |-> TRUE, db |-> [d EXCEPT !.tables = @ \cup {"t"}]]

\* ====================================================== frames of the calls
Slots == 1..MaxCalls

IdleCall ==
    [op |-> "none", pc |-> "idle", query |-> "", params |-> <<>>, conn |-> FALSE,
     stmt |-> NoStmt, column_names |-> <<>>, sql_params |-> <<>>, started |-> FALSE,
     pending |-> <<>>, walked |-> <<>>, nread |-> 0, didOpen |-> FALSE,
     result |-> <<>>,
     outcome |-> "none", mustSee |-> {}]

InFlight(c) == c.pc \notin {"idle", "returned"}
\* A select holds the engine's shared lock from its first row to its last.
Reading(c) == c.pc = "rows" /\ c.started /\ c.stmt.from = "t"

\* Leaving the function: the locals are dropped, statement before connection.
ReturnLeakOnErr(s, c, out, res) ==
    /\ call' = [call EXCEPT ![s] = [c EXCEPT !.pc = "returned", !.outcome = out,
                                             !.result = res, !.conn = FALSE,
                                             !.stmt = NoStmt, !.pending = <<>>]]
    /\ openConns' = openConns - (IF c.conn /\ out = "ok" THEN 1 ELSE 0)
    /\ openStmts' = openStmts - (IF c.stmt.live THEN 1 ELSE 0)
    /\ everInit' = (everInit \/ (c.op = "init" /\ out = "ok"))

Return(s, c, out, res) ==
    /\ call' = [call EXCEPT ![s] = [c EXCEPT !.pc = "returned", !.outcome = out,
                                             !.result = res, !.conn = FALSE,
                                             !.stmt = NoStmt, !.pending = <<>>]]
    /\ openConns' = openConns - (IF c.conn THEN 1 ELSE 0)
    /\ openStmts' = openStmts - (IF c.stmt.live THEN 1 ELSE 0)
    /\ everInit' = (everInit \/ (c.op = "init" /\ out = "ok"))

\* get_db_path: resolve the app data dir and create it (on a file system that
\* lets it); data/ is not created.
get_db_path_CreatesData(f) ==
    IF host = "ok" THEN [ok |-> TRUE, fs |-> [f EXCEPT !.appDir = TRUE, !.dataDir = TRUE]]
    ELSE [ok |-> FALSE, fs |-> f]

get_db_path(f) ==
    IF host = "ok" THEN [ok |-> TRUE, fs |-> [f EXCEPT !.appDir = TRUE]]
    ELSE [ok |-> FALSE, fs |-> f]

\* Connection::open: opens the file, creating it empty when absent; fails
\* when the directory that should hold it is not there.
ConnectionOpenTruncate(f, d) ==
    IF f.dataDir THEN [ok |-> TRUE, fs |-> [f EXCEPT !.dbFile = TRUE],
                       db |-> [tables |-> {}, rows |-> <<>>]]
    ELSE [ok |-> FALSE, fs |-> f, db |-> d]

ConnectionOpen(f, d) ==
    IF f.dataDir THEN [ok |-> TRUE, fs |-> [f EXCEPT !.dbFile = TRUE], db |-> d]
    ELSE [ok |-> FALSE, fs |-> f, db |-> d]

\* A command arrives and runs its first statement, get_db_path(&app)?.
Invoke(s) ==
    /\ call[s].pc = "idle"
    /\ \E req \in Requests :
           LET c == [IdleCall EXCEPT !.op = req.op, !.query = req.text,
                                     !.params = req.params,
                                     !.mustSee = IF req.op = "query" THEN acked ELSE {}]
               r == get_db_path(fs)
           IN  /\ fs' = r.fs
               /\ IF r.ok
                  THEN /\ call' = [call EXCEPT ![s] = [c EXCEPT !.pc = "path"]]
                       /\ UNCHANGED <<openConns, openStmts, everInit>>
                  ELSE Return(s, c, "err", <<>>)
    /\ UNCHANGED <<db, acked, host>>
    /\ UNCHANGED bridgeVars

\* init_database: fs::create_dir_all(db_path.parent()).
InitCreateDir(s) ==
    /\ call[s].op = "init" /\ call[s].pc = "path"
    /\ fs' = [fs EXCEPT !.dataDir = TRUE]
    /\ call' = [call EXCEPT ![s].pc = "dir"]
    /\ UNCHANGED <<db, acked, host, openConns, openStmts, everInit>>
    /\ UNCHANGED bridgeVars

\* Connection::open(&db_path).map_err(..)? in each of the three commands.
Open(s) ==
    /\ \/ call[s].op = "init" /\ call[s].pc = "dir"
       \/ call[s].op \in {"query", "command"} /\ call[s].pc = "path"
    /\ LET r == ConnectionOpen(fs, db)
       IN  /\ fs' = r.fs
           /\ db' = r.db
           /\ IF r.ok
              THEN /\ call' = [call EXCEPT ![s] = [@ EXCEPT !.pc = "opened", !.conn = TRUE,
                                                            !.didOpen = TRUE]]
                   /\ openConns' = openConns + 1
                   /\ UNCHANGED <<openStmts, everInit>>
              ELSE Return(s, call[s], "err", <<>>)
    /\ UNCHANGED <<acked, host>>
    /\ UNCHANGED bridgeVars

\* init_database: conn.execute_batch(schema)?; Ok(()).
InitBatch(s) ==
    /\ call[s].op = "init" /\ call[s].pc = "opened"
    /\ LET r == ApplySchema(db)
       IN  IF r.ok THEN db' = r.db /\ Return(s, call[s], "ok", <<>>)
           ELSE db' = db /\ Return(s, call[s], "err", <<>>)
    /\ UNCHANGED <<fs, acked, host>>
    /\ UNCHANGED bridgeVars

\* column_names: one name per column of the prepared statement.
ColumnNames(stmt) == stmt.cols

\* execute_query: the parameters are bridged, the text prepared, the column
\* names captured.
QueryPrepare(s) ==
    /\ call[s].op = "query" /\ call[s].pc = "opened"
    /\ LET c == call[s]
           sql_params == [i \in 1..Len(c.params) |-> json_to_sql_value(c.params[i])]
           p == Prepare(c.query, db.tables)
       IN  IF p.ok
           THEN /\ call' = [call EXCEPT ![s] = [c EXCEPT !.pc = "prepared",
                                !.sql_params = sql_params, !.stmt = p.stmt,
                                !.column_names = ColumnNames(p.stmt)]]
                /\ openStmts' = openStmts + 1
                /\ UNCHANGED <<openConns, everInit>>
           ELSE Return(s, c, "err", <<>>)
    /\ UNCHANGED <<fs, db, acked, host>>
    /\ UNCHANGED bridgeVars

\* stmt.query_map(params_from_iter(..), ..)?: binding fails when the number
\* of parameters is not the statement's.
QueryBind(s) ==
    /\ call[s].op = "query" /\ call[s].pc = "prepared"
    /\ LET c == call[s]
       IN  IF Len(c.sql_params) = c.stmt.nparams
           THEN /\ call' = [call EXCEPT ![s].pc = "rows"]
                /\ UNCHANGED <<openConns, openStmts, everInit>>
           ELSE Return(s, c, "err", <<>>)
    /\ UNCHANGED <<fs, db, acked, host>>
    /\ UNCHANGED bridgeVars

\* The closure of query_map: every column of the row goes through
\* sql_to_json_value into the map under its name; row.get_ref(i).unwrap()
\* panics when the row has no column i.
RECURSIVE InsertColumns(_, _, _, _)
InsertColumnsFirstWins(names, vals, i, map) ==
    IF i > Len(names) THEN [ok |-> TRUE, map |-> map]
    ELSE IF i > Len(vals) THEN [ok |-> FALSE]
    ELSE InsertColumns(names, vals, i + 1,
                       IF names[i] \in DOMAIN map THEN map
                       ELSE MapInsert(map, names[i], sql_to_json_value(vals[i])))

InsertColumns(names, vals, i, map) ==
    IF i > Len(names) THEN [ok |-> TRUE, map |-> map]
    ELSE IF i > Len(vals) THEN [ok |-> FALSE]
    ELSE InsertColumns(names, vals, i + 1,
                       MapInsert(map, names[i], sql_to_json_value(vals[i])))

\* What one turn of `for row in rows` does with the engine's answer.
StepKeepRead(s, c, st) ==
    IF ~st.ok THEN Return(s, c, "ok", c.result)
    ELSE LET m == InsertColumns(c.column_names, st.vals, 1, <<>>)
         IN  IF ~m.ok THEN Return(s, c, "panic", <<>>)
             ELSE /\ call' = [call EXCEPT ![s] = [c EXCEPT !.pending = Tail(@),
                                  !.nread = @ + 1,
                                  !.result = Append(@, JObj(m.map))]]
                  /\ UNCHANGED <<openConns, openStmts, everInit>>

Step(s, c, st) ==
    IF ~st.ok THEN Return(s, c, "err", <<>>)
    ELSE LET m == InsertColumns(c.column_names, st.vals, 1, <<>>)
         IN  IF ~m.ok THEN Return(s, c, "panic", <<>>)
             ELSE /\ call' = [call EXCEPT ![s] = [c EXCEPT !.pending = Tail(@),
                                  !.nread = @ + 1,
                                  !.result = Append(@, JObj(m.map))]]
                  /\ UNCHANGED <<openConns, openStmts, everInit>>

\* execute_query: one iteration of the loop over the mapped rows, or its
\* end and Ok(result).  The first step takes the rows the statement walks.
QueryNext(s) ==
    /\ call[s].op = "query" /\ call[s].pc = "rows"
    /\ LET c0 == call[s]
           c == IF c0.started THEN c0
                ELSE [c0 EXCEPT !.started = TRUE,
                                !.pending = ResultRows(c0.stmt, db.rows),
                                !.walked = ResultRows(c0.stmt, db.rows)]
       IN  IF c.pending = <<>> THEN Return(s, c, "ok", c.result)
           ELSE Step(s, c, EvalRow(c.stmt, Head(c.pending), c.sql_params))
    /\ UNCHANGED <<fs, db, acked, host>>
    /\ UNCHANGED bridgeVars

\* What conn.execute leaves in the store.
ExecuteNotCommitted(stmt, sql_params, d) == d

Execute(stmt, sql_params, d) ==
    IF stmt.kind = "insert" THEN [d EXCEPT !.rows = Append(@, sql_params[1])]
    ELSE [d EXCEPT !.rows = SelectSeq(@, LAMBDA r : r # sql_params[1])]

\* execute_non_query: the parameters are bridged and conn.execute runs the
\* statement; the engine refuses it while another call is reading t, and
\* when the store is full.
CommandExecute(s) ==
    /\ call[s].op = "command" /\ call[s].pc = "opened"
    /\ LET c == call[s]
           sql_params == [i \in 1..Len(c.params) |-> json_to_sql_value(c.params[i])]
           p == Prepare(c.query, db.tables)
           busy == \E o \in Slots \ {s} : Reading(call[o])
       IN  IF ~p.ok \/ Len(sql_params) # p.stmt.nparams \/ busy
              \/ (p.stmt.kind = "insert" /\ Len(db.rows) >= MaxRows)
           THEN /\ Return(s, c, "err", <<>>)
                /\ UNCHANGED <<db, acked>>
           ELSE /\ db' = Execute(p.stmt, sql_params, db)
                /\ acked' = IF p.stmt.kind = "insert" THEN acked \cup {sql_params[1]}
                            ELSE acked \ {sql_params[1]}
                /\ LET undone == IF p.stmt.kind = "delete" THEN {sql_params[1]} ELSE {}
                   IN  /\ call' = [o \in Slots |->
                                    IF o = s
                                    THEN [c EXCEPT !.pc = "returned", !.outcome = "ok",
                                                   !.conn = FALSE]
                                    ELSE [call[o] EXCEPT !.mustSee = @ \ undone]]
                       /\ openConns' = openConns - 1
                       /\ UNCHANGED <<openStmts, everInit>>
    /\ UNCHANGED <<fs, host>>
    /\ UNCHANGED bridgeVars

\* The host hands the result to the caller; the slot is free again.
Ack(s) ==
    /\ call[s].pc = "returned"
    /\ call' = [call EXCEPT ![s] = IdleCall]
    /\ UNCHANGED <<fs, db, acked, host, openConns, openStmts, everInit>>
    /\ UNCHANGED bridgeVars

\* ========================================================= specifications
Init ==
    /\ host \in {"ok", "none"}
    /\ fs = [appDir |-> FALSE, dataDir |-> FALSE, dbFile |-> FALSE]
    /\ db = [tables |-> {}, rows |-> <<>>]
    /\ call = [s \in Slots |-> IdleCall]
    /\ openConns = 0
    /\ openStmts = 0
    /\ acked = {}
    /\ everInit = FALSE
    /\ bpc = "off" /\ bIn = NoValue /\ bNative = NoValue /\ bOut = NoValue

Next ==
    \E s \in Slots :
        \/ Invoke(s)
        \/ InitCreateDir(s)
        \/ Open(s)
        \/ InitBatch(s)
        \/ QueryPrepare(s)
        \/ QueryBind(s)
        \/ QueryNext(s)
        \/ CommandExecute(s)
        \/ Ack(s)

Spec == Init /\ [][Next]_vars

BridgeInit ==
    /\ host = "ok"
    /\ fs = [appDir |-> FALSE, dataDir |-> FALSE, dbFile |-> FALSE]
    /\ db = [tables |-> {}, rows |-> <<>>]
    /\ call = [s \in Slots |-> IdleCall]
    /\ openConns = 0
    /\ openStmts = 0
    /\ acked = {}
    /\ everInit = FALSE
    /\ bOut = NoValue
    /\ \/ bpc = "input" /\ bIn \in ExternalInputs /\ bNative = NoValue
       \/ bpc = "stored" /\ bIn = NoValue /\ bNative \in StoredInputs

BridgeNext == Bind \/ ReadBack

BridgeSpec == BridgeInit /\ [][BridgeNext]_vars

\* ================================================================= claims
IsIntNumber(val) == val.t = "num" /\ val.v.k = "int"
BoolAsInt(b) == IF b THEN 1 ELSE 0
Returned(s, op) == call[s].pc = "returned" /\ call[s].op = op

\* C1 as stated: a Null, an integer Number or any String bound and read
\* back (SELECT ?) comes out equal to what went in.
C1_AnyStringRoundTrips ==
    (bpc = "read" /\ (bIn.t \in {"null", "str"} \/ IsIntNumber(bIn))) => bOut = bIn

\* C1 amended: a Null, an integer Number, or a String whose text is not
\* itself a serialized value, bound and read back comes out equal to what
\* went in.
C1_ScalarRoundTrip ==
    (bpc = "read"
        /\ (bIn.t = "null" \/ IsIntNumber(bIn) \/ (bIn.t = "str" /\ ~from_str(bIn.v).ok)))
    => bOut = bIn

C1_Witness ==
    /\ bpc = "read"
    /\ bIn = JStr(<<"A", "l", "i", "c", "e">>)
    /\ bNative = SqlText(<<"A", "l", "i", "c", "e">>)
    /\ bOut = bIn

\* C2: an Array or Object bound and read back comes out structurally equal:
\* Booleans inside it are still Booleans, Strings still Strings.
C2_CompositeRoundTrip ==
    (bpc = "read" /\ bIn.t \in {"arr", "obj"}) => (bNative.t = "Text" /\ bOut = bIn)

C2_Witness ==
    /\ bpc = "read"
    /\ bIn = JArr(<<JObj([key \in {<<"a">>, <<>>} |->
                            IF key = <<"a">> THEN JBool(TRUE) ELSE JStr(<<"4", "2">>)]),
                    JStr(<<"4", "2">>)>>)
    /\ bOut = bIn

\* C3 as stated: for every Text(s) the outbound value is the parsed value
\* when s parses and String(s), unchanged, when it does not.
C3_EveryTextParsedOrUnchanged ==
    (bpc = "read" /\ bNative.t = "Text") =>
        bOut = (IF from_str(bNative.v).ok THEN from_str(bNative.v).val ELSE JStr(bNative.v))

\* C3 amended: for every Text(s) that is valid UTF-8 the outbound value is
\* the parsed value when s parses ("42" gives Number 42, "null" gives Null)
\* and String(s), unchanged, when it does not; in a Text that is not valid
\* UTF-8 each invalid byte is first replaced by U+FFFD and the same rule is
\* applied to the replaced text.  The outbound value is never an error.
C3_ValidTextParsedOrUnchanged ==
    (bpc = "read" /\ bNative.t = "Text") =>
        LET s == bNative.v
            valid == \A i \in 1..Len(s) : s[i] # InvalidByte
            text == IF valid THEN s
                    ELSE [i \in 1..Len(s) |-> IF s[i] = InvalidByte THEN ReplacementChar ELSE s[i]]
        IN  /\ bOut = (IF from_str(text).ok THEN from_str(text).val ELSE JStr(text))
            /\ bOut.t \in {"null", "bool", "num", "str", "arr", "obj"}
            /\ s = <<"4", "2">> => bOut = JInt(42)
            /\ s = <<"n", "u", "l", "l">> => bOut = JNull
            /\ s = <<"n", "u", "l">> => bOut = JStr(s)

C3_Witness ==
    /\ bpc = "read"
    /\ bIn = JStr(<<"4", "2">>)
    /\ bNative = SqlText(<<"4", "2">>)
    /\ bOut = JInt(42)

\* C4: a Boolean is bound as Integer 1 or 0 and read back as the Number 1 or
\* 0, never as a Boolean.
C4_BooleanBecomesNumber ==
    (bpc \in {"bound", "read"} /\ bIn.t = "bool") =>
        /\ bNative = SqlInteger(BoolAsInt(bIn.v))
        /\ bpc = "read" => (bOut = JInt(BoolAsInt(bIn.v)) /\ bOut.t # "bool")

C4_Witness ==
    bpc = "read" /\ bIn = JBool(TRUE) /\ bNative = SqlInteger(1) /\ bOut = JInt(1)

\* C5: a returned execute_query has either succeeded with one record for
\* every row the statement walked, or failed with no records; there is no
\* third outcome.
C5_AllRowsOrError ==
    \A s \in Slots :
        Returned(s, "query") =>
            /\ call[s].outcome \in {"ok", "err"}
            /\ call[s].outcome = "ok" =>
                    (Len(call[s].result) = Len(call[s].walked) /\ call[s].nread = Len(call[s].walked))
            /\ call[s].outcome = "err" => call[s].result = <<>>

\* The failure came at a row after the first: a record had been built.
C5_Witness ==
    \E s \in Slots :
        /\ Returned(s, "query")
        /\ call[s].outcome = "err"
        /\ call[s].nread >= 1
        /\ Len(call[s].walked) > call[s].nread
        /\ call[s].result = <<>>

\* C6: a query that started after an INSERT returned success, and returns
\* success itself, has the inserted value among its rows unless a call in
\* between deleted it.
C6_CommittedWritesAreRead ==
    \A s \in Slots :
        (Returned(s, "query") /\ call[s].outcome = "ok" /\ call[s].query = Q_NAME) =>
            \A nv \in call[s].mustSee :
                \E i \in 1..Len(call[s].result) :
                    call[s].result[i].v[ColName] = sql_to_json_value(nv)

C6_Witness ==
    \E s \in Slots :
        /\ Returned(s, "query") /\ call[s].outcome = "ok" /\ call[s].query = Q_NAME
        /\ everInit
        /\ call[s].mustSee = {SqlText(<<"A", "l">>), SqlText(<<"[", "t", "r", "u", "e", "]">>)}
        /\ Len(call[s].result) = 2

\* A step of the call in slot s (another call's DELETE touches only the
\* record of what this one must see).
StepOf(s) == [call'[s] EXCEPT !.mustSee = {}] # [call[s] EXCEPT !.mustSee = {}]
InitCall(s) == call[s].op = "init" \/ call'[s].op = "init"
StoreCall(s) ==
    \/ call[s].op \in {"query", "command"} /\ call[s].pc # "returned"
    \/ call[s].pc = "idle" /\ call'[s].op \in {"query", "command"}

C8_ConnectionsScopedToCalls ==
    /\ openConns = Cardinality({s \in Slots : call[s].conn})
    /\ openStmts = Cardinality({s \in Slots : call[s].stmt.live})
    /\ \A s \in Slots : call[s].stmt.live => call[s].conn
    /\ \A s \in Slots : call[s].conn => InFlight(call[s])
    /\ openConns <= Cardinality({s \in Slots : InFlight(call[s])})

\* A call has returned an error after it had opened its connection.
C8_Witness ==
    \E s \in Slots :
        /\ call[s].pc = "returned" /\ call[s].outcome = "err" /\ call[s].didOpen
        /\ openConns = 0 /\ openStmts = 0

\* The statement a returned query ran and the native values of its rows.
StmtOf(c) == Prepare(c.query, {"t"}).stmt
RowVals(c, i) == EvalRow(StmtOf(c), c.walked[i], c.sql_params).vals
LastCol(names, n) == CHOOSE j \in 1..Len(names) :
                        names[j] = n /\ \A k \in (j + 1)..Len(names) : names[k] # n

\* C9 as stated: every record of a successful query has one entry per result
\* column, and the entry of the column at position j is the bridged value
\* of the row at position j, also when two columns have the same name.
C9_OneEntryPerColumn ==
    \A s \in Slots :
        (Returned(s, "query") /\ call[s].outcome = "ok") =>
            \A i \in 1..Len(call[s].result) :
                LET names == StmtOf(call[s]).cols
                    rec == call[s].result[i].v
                IN  /\ DOMAIN rec = {names[j] : j \in 1..Len(names)}
                    /\ Cardinality(DOMAIN rec) = Len(names)
                    /\ \A j \in 1..Len(names) :
                          rec[names[j]] = sql_to_json_value(RowVals(call[s], i)[j])

\* C9 amended: every record of a successful query has one entry per distinct
\* column name, all records of a result have the same keys, and the entry
\* of a name is the bridged value of the row at the last position with that
\* name; so with distinct names there is one entry per column and the entry
\* of the column at position j is the bridged value at position j.
C9_OneEntryPerColumnName ==
    \A s \in Slots :
        (Returned(s, "query") /\ call[s].outcome = "ok") =>
            /\ Len(call[s].result) = Len(call[s].walked)
            /\ \A i \in 1..Len(call[s].result) :
                LET names == StmtOf(call[s]).cols
                    rec == call[s].result[i].v
                IN  /\ call[s].result[i].t = "obj"
                    /\ DOMAIN rec = {names[j] : j \in 1..Len(names)}
                    /\ \A n \in DOMAIN rec :
                          rec[n] = sql_to_json_value(RowVals(call[s], i)[LastCol(names, n)])

C9_Witness ==
    \E s \in Slots :
        /\ Returned(s, "query") /\ call[s].outcome = "ok" /\ call[s].query = Q_DUP
        /\ Len(call[s].result) = 2
        /\ call[s].result[1].v = [key \in {ColA} |-> JInt(1)]

\* C10: while the data directory is absent a step of execute_query or
\* execute_non_query creates neither it nor the store file, runs no
\* statement, and ends the call, if it gets as far as opening, with an
\* error; once init_database has succeeded, opening succeeds.
C10_OnlyInitCreatesTheStore ==
    [][\A s \in Slots :
          (StepOf(s) /\ StoreCall(s)) =>
              /\ ~fs.dataDir =>
                    /\ ~fs'.dataDir /\ ~fs'.dbFile /\ db' = db
                    /\ ~call'[s].conn
                    /\ call'[s].pc = "path" \/ (call'[s].pc = "returned" /\ call'[s].outcome = "err")
              /\ (everInit /\ call[s].pc = "path") => (call'[s].pc = "opened" /\ call'[s].conn)]_vars

\* A query has failed at Connection::open: the app data dir is there, data/
\* and the store file are not.
C10_Witness ==
    \E s \in Slots :
        /\ Returned(s, "query") /\ call[s].outcome = "err" /\ ~call[s].didOpen
        /\ fs.appDir /\ ~fs.dataDir /\ ~fs.dbFile
====
